---------------------------- MODULE Spec2Model ----------------------------
(***************************************************************************)
(* Model of the Jawartou e-commerce backend: the stock aggregation of     *)
(* app/core/utils.py, the two families of cart handlers (app/api/cart.py  *)
(* and the cart handlers of app/api/orders.py) and the checkout handler   *)
(* create_order of app/api/orders.py, over the carts, orders and products *)
(* collections of the document store; the product updates and listings   *)
(* of app/api/products.py with the categories aggregation of main.py;     *)
(* get_cart and add_to_cart of app/api/cart.py and create_order taken one *)
(* store operation at a time; and the authentication of                   *)
(* app/core/security.py with the user administration of app/api/users.py. *)
(***************************************************************************)
EXTENDS Integers, Sequences, FiniteSets, TLC

(***************************************************************************)
(* Bounds of the model.                                                    *)
(***************************************************************************)
MaxEntries == 2
MaxLines == 2
MaxQty == 5
MaxOps == 3
MaxRequests == 3

(***************************************************************************)
(* Python values as they come back from the document store.  Every value  *)
(* has the same three fields so that values of different types compare.   *)
(* A dict is the sequence of its <<key, value>> entries in insertion      *)
(* order.                                                                  *)
(***************************************************************************)
IntV(n) == [t |-> "int", v |-> n, d |-> <<>>]

BoolV(b) == [t |-> "bool", v |-> IF b THEN 1 ELSE 0, d |-> <<>>]

StrV == [t |-> "str", v |-> 0, d |-> <<>>]

FloatV == [t |-> "float", v |-> 0, d |-> <<>>]

ListV == [t |-> "list", v |-> 0, d |-> <<>>]

NoneV == [t |-> "none", v |-> 0, d |-> <<>>]

MissingV == [t |-> "missing", v |-> 0, d |-> <<>>]

DictV(entries) == [t |-> "dict", v |-> 0, d |-> entries]

\* isinstance(x, int): bool is a subclass of int in Python
IsInstanceInt(x) == x.t \in {"int", "bool"}

IsInstanceDict(x) == x.t = "dict"

\* Python truthiness of a value ("not stock" is its negation); StrV, FloatV
\* and ListV stand for a non-empty string, a non-zero float, a non-empty list
Truthy(x) ==
    CASE x.t = "none" -> FALSE
      [] x.t = "missing" -> FALSE
      [] x.t = "dict" -> Len(x.d) > 0
      [] x.t = "int" -> x.v # 0
      [] x.t = "bool" -> x.v # 0
      [] OTHER -> TRUE

(***************************************************************************)
(* calculate_total_stock: the loop over stock.items() with the inner loop *)
(* over value.items().  The accumulator carries the running total and     *)
(* whether an exception was raised.                                        *)
(***************************************************************************)
\* the inner loop if it walked into mappings below the second level
RECURSIVE InnerLoopDeep(_, _, _)
InnerLoopDeep(entries, i, acc) ==
    IF i > Len(entries) \/ acc.raised THEN acc
    ELSE LET sub_value == entries[i][2] IN
         IF IsInstanceInt(sub_value)
         THEN InnerLoopDeep(entries, i + 1, [acc EXCEPT !.total = @ + sub_value.v])
         ELSE IF IsInstanceDict(sub_value)
         THEN InnerLoopDeep(entries, i + 1, InnerLoopDeep(sub_value.d, 1, acc))
         ELSE InnerLoopDeep(entries, i + 1, acc)

RECURSIVE InnerLoop(_, _, _)
InnerLoop(entries, i, acc) ==
    IF i > Len(entries) \/ acc.raised THEN acc
    ELSE LET sub_value == entries[i][2] IN
         IF IsInstanceInt(sub_value)
         THEN InnerLoop(entries, i + 1, [acc EXCEPT !.total = @ + sub_value.v])
         ELSE InnerLoop(entries, i + 1, acc)

\* the loop body without the isinstance(value, int) test: total += value
\* raises TypeError on a value that is not a number
StockLoopBodyUnchecked(value, acc) ==
    IF IsInstanceDict(value) THEN InnerLoop(value.d, 1, acc)
    ELSE IF IsInstanceInt(value) THEN [acc EXCEPT !.total = @ + value.v]
    ELSE [acc EXCEPT !.raised = TRUE]

\* one iteration of "for key, value in stock.items()" (utils.py 96-103)
StockLoopBody(value, acc) ==
    IF IsInstanceInt(value) THEN [acc EXCEPT !.total = @ + value.v]
    ELSE IF IsInstanceDict(value) THEN InnerLoop(value.d, 1, acc)
    ELSE acc

RECURSIVE OuterLoop(_, _, _)
OuterLoop(entries, i, acc) ==
    IF i > Len(entries) \/ acc.raised THEN acc
    ELSE OuterLoop(entries, i + 1, StockLoopBody(entries[i][2], acc))

calculate_total_stock(stock) ==
    IF ~Truthy(stock) \/ ~IsInstanceDict(stock)
    THEN [raised |-> FALSE, total |-> 0]
    ELSE OuterLoop(stock.d, 1, [raised |-> FALSE, total |-> 0])

(***************************************************************************)
(* The stock structures the stock specification draws its inputs from.    *)
(***************************************************************************)
TopKeys == {"a", "b"}

SubKeys == {"S", "M"}

LeafVals == {IntV(-1), IntV(2), BoolV(TRUE), StrV, FloatV, ListV, NoneV}

\* the entry sequences of at most n entries with distinct keys
RECURSIVE EntrySeqs(_, _, _)
EntrySeqs(keys, vals, n) ==
    IF n = 0 THEN {<<>>}
    ELSE LET shorter == EntrySeqs(keys, vals, n - 1) IN
         shorter \cup
         { Append(x[1], <<x[2], x[3]>>) :
             x \in { y \in shorter \X keys \X vals :
                       /\ Len(y[1]) = n - 1
                       /\ \A i \in 1..Len(y[1]) : y[1][i][1] # y[2] } }

\* all dicts of at most MaxEntries entries, distinct keys, values from vals
DictsOver(keys, vals) == { DictV(e) : e \in EntrySeqs(keys, vals, MaxEntries) }

\* a mapping three levels down: its leaves must not be counted
DeepDict == DictV(<< <<"x", IntV(7)>> >>)

Level2Vals == LeafVals \cup {DeepDict, DictV(<<>>)}

Level1Vals == LeafVals \cup DictsOver(SubKeys, Level2Vals)

ExampleFlat == DictV(<< <<"50ml", IntV(10)>> >>)

ExampleNested ==
    DictV(<< <<"Noir", DictV(<< <<"S", IntV(5)>>, <<"M", IntV(10)>> >>)>>,
             <<"Blanc", DictV(<< <<"S", IntV(3)>> >>)>> >>)

NonMappings == {NoneV, MissingV, IntV(4), IntV(0), StrV, ListV, FloatV}

StockInputs ==
    DictsOver(TopKeys, Level1Vals) \cup NonMappings
        \cup {ExampleFlat, ExampleNested}

(***************************************************************************)
(* The document store.  products maps a product id to its document; carts *)
(* and orders are the collections in insertion order.  A cart document is *)
(* keyed either by the field "userId" (written by app/api/cart.py) or by  *)
(* the field "user" (written by the handlers of app/api/orders.py).       *)
(***************************************************************************)
Users == {"u1", "u2"}

ProductIds == {"p1", "p2"}

\* ids a request can carry: stored products, a well-formed id of no product,
\* and a string that is not an ObjectId
RequestIds == ProductIds \cup {"p9", "bad"}

Sizes == {"S", "M"}

Colors == {"Noir"}

Qtys == {0, 2}

Indexes == {-1, 0, 1, 2}

\* a field the document does not have
Absent == "<absent>"

\* product documents the store is seeded with: integer stock as
\* orders.py:243 reads it or the mapping shape of products.py:344-348, and
\* promoPrice absent, set, or null as products.py:187 stores it; onPromotion
\* and featured are set only by update_product, create_product stores
\* neither key
LegacyProduct ==
    [active |-> TRUE, price |-> 10, promoPrice |-> MissingV, stock |-> IntV(3),
     onPromotion |-> MissingV, featured |-> MissingV, category |-> "parfum",
     subcategory |-> "50ml", name |-> "oud"]

PromoProduct ==
    [active |-> TRUE, price |-> 10, promoPrice |-> IntV(8), stock |-> IntV(3),
     onPromotion |-> BoolV(TRUE), featured |-> BoolV(TRUE),
     category |-> "parfum", subcategory |-> "50ml", name |-> "oud"]

\* a color -> size -> count stock with one unit left
ApparelStock == DictV(<< <<"Noir", DictV(<< <<"S", IntV(1)>> >>)>> >>)

ApparelProduct ==
    [active |-> TRUE, price |-> 20, promoPrice |-> NoneV, stock |-> ApparelStock,
     onPromotion |-> MissingV, featured |-> MissingV, category |-> "vetement",
     subcategory |-> Absent, name |-> "robe"]

NoPromoProduct ==
    [active |-> TRUE, price |-> 20, promoPrice |-> NoneV, stock |-> IntV(2),
     onPromotion |-> MissingV, featured |-> MissingV, category |-> "vetement",
     subcategory |-> Absent, name |-> "robe"]

\* the catalogs the store starts with
SeedCatalogs ==
    { [p \in ProductIds |-> IF p = "p1" THEN LegacyProduct ELSE ApparelProduct],
      [p \in ProductIds |-> IF p = "p1" THEN PromoProduct ELSE NoPromoProduct] }

\* the accounts of the users collection: the customers and one more admin
Accounts == Users \cup {"a1"}

\* the users collection at the start: register stores the role "user"
\* (auth.py 58); a1 and u1 have been given the role admin
SeedUsers ==
    [id \in Accounts |-> [role |-> IF id = "u2" THEN "user" ELSE "admin"]]

VARIABLES stockIn, stockRes, products, carts, orders, resp, nops, reqs, users

vars == <<stockIn, stockRes, products, carts, orders, resp, nops, reqs, users>>

storeVars == <<products, carts, orders, resp, nops>>

\* what the request handlers taken as single steps leave alone: the stock
\* computation and the requests in flight
stockVars == <<stockIn, stockRes, reqs, users>>

NoRes == [op |-> "none", raised |-> FALSE, total |-> 0, inStock |-> FALSE]

\* a response: the status code and detail, the product or order id the
\* request named, and the documents returned in its body
NoResp == [op |-> "none", file |-> "none", user |-> "none", code |-> 0,
           detail |-> "none", productId |-> Absent, orderId |-> Absent,
           data |-> <<>>]

Resp(file, op, u, code, detail) ==
    [op |-> op, file |-> file, user |-> u, code |-> code, detail |-> detail,
     productId |-> Absent, orderId |-> Absent, data |-> <<>>]

\* the response of a request that names a product
RespFor(file, op, u, code, detail, productId) ==
    [Resp(file, op, u, code, detail) EXCEPT !.productId = productId]

\* ObjectId.is_valid / ObjectId(...) of the request's id
IsValidObjectId(id) == id # "bad"

\* db.products.find_one({"_id": ...}): TRUE when a document is returned
ProductFound(id) == id \in DOMAIN products

\* index of the first cart document whose field key equals u, 0 when none
RECURSIVE FindFrom(_, _, _, _)
FindFrom(cs, key, u, i) ==
    IF i > Len(cs) THEN 0
    ELSE IF cs[i].key = key /\ cs[i].owner = u THEN i
    ELSE FindFrom(cs, key, u, i + 1)

FindCart(cs, key, u) == FindFrom(cs, key, u, 1)

\* sum(item["price"] * item["quantity"] for item in items): a null price
\* raises TypeError
RECURSIVE SumFrom(_, _, _)
SumFrom(items, i, acc) ==
    IF i > Len(items) \/ acc.raised THEN acc
    ELSE IF items[i].price.t = "int"
         THEN SumFrom(items, i + 1,
                  [acc EXCEPT !.total = @ + items[i].price.v * items[i].quantity])
         ELSE [acc EXCEPT !.raised = TRUE]

SumLines(items) == SumFrom(items, 1, [raised |-> FALSE, total |-> 0])

\* one more request is served; the model serves at most MaxOps of them
Serve == nops < MaxOps /\ nops' = nops + 1

\* the lines stay within the bounds of the model
WithinBounds(items) ==
    /\ Len(items) <= MaxLines
    /\ \A i \in 1..Len(items) :
         items[i].quantity <= MaxQty /\ items[i].quantity >= 0 - MaxQty

(***************************************************************************)
(* app/api/cart.py: the cart handlers mounted under /api/cart.  Their     *)
(* cart documents are keyed by "userId" and store a total.                *)
(***************************************************************************)
NewCartDoc(u) ==
    [key |-> "userId", owner |-> u, items |-> <<>>, hasTotal |-> TRUE,
     total |-> 0]

\* index of the first line with the same productId, size and color, 0 if none
RECURSIVE ExistingFrom(_, _, _)
ExistingFrom(items, item, i) ==
    IF i > Len(items) THEN 0
    ELSE IF /\ items[i].productId = item.productId
            /\ items[i].size = item.size
            /\ items[i].color = item.color
         THEN i
         ELSE ExistingFrom(items, item, i + 1)

\* cart.py 77-89: increment the matching line or append the new one
MergeOrAppend(items, item) ==
    LET e == ExistingFrom(items, item, 1) IN
    IF e # 0
    THEN [items EXCEPT ![e].quantity = @ + item.quantity]
    ELSE Append(items, item)

\* get_cart (cart.py 11-35)
CartGet(u) ==
    /\ Serve
    /\ carts' = IF FindCart(carts, "userId", u) = 0
                THEN Append(carts, NewCartDoc(u))
                ELSE carts
    /\ resp' = Resp("cart.py", "get_cart", u, 200, "ok")
    /\ UNCHANGED <<products, orders, stockVars>>

\* add_to_cart (cart.py 38-104)
CartAdd(u, productId, quantity, size, color) ==
    /\ Serve
    /\ IF ~IsValidObjectId(productId)
       THEN /\ resp' = RespFor("cart.py", "add_to_cart", u, 400, "ID produit invalide", productId)
            /\ UNCHANGED <<products, carts, orders, stockVars>>
       ELSE IF ~ProductFound(productId)
       THEN /\ resp' = RespFor("cart.py", "add_to_cart", u, 404, "Produit non trouve", productId)
            /\ UNCHANGED <<products, carts, orders, stockVars>>
       ELSE LET found == FindCart(carts, "userId", u)
                cs == IF found = 0 THEN Append(carts, NewCartDoc(u)) ELSE carts
                at == FindCart(cs, "userId", u)
                item == [productId |-> productId,
                         price |-> IntV(products[productId].price),
                         quantity |-> quantity, size |-> size, color |-> color]
                items == MergeOrAppend(cs[at].items, item)
            IN /\ WithinBounds(items)
               /\ carts' = [cs EXCEPT ![at].items = items,
                                      ![at].hasTotal = TRUE,
                                      ![at].total = SumLines(items).total]
               /\ resp' = RespFor("cart.py", "add_to_cart", u, 200, "ok", productId)
               /\ UNCHANGED <<products, orders, stockVars>>

\* payloads of the bulk update: CartItem lists as the client sends them
ReplacePayloads ==
    { <<>>,
      << [productId |-> "p1", price |-> IntV(10), quantity |-> 2,
          size |-> "S", color |-> "Noir"] >>,
      << [productId |-> "p2", price |-> IntV(7), quantity |-> 0,
          size |-> "M", color |-> "Noir"],
         [productId |-> "p2", price |-> IntV(7), quantity |-> 1,
          size |-> "M", color |-> "Noir"] >> }

\* update_cart (cart.py 107-134): replace the lines, upsert
CartReplace(u, items) ==
    LET at == FindCart(carts, "userId", u)
        total == SumLines(items).total
    IN /\ Serve
       /\ carts' = IF at = 0
                   THEN Append(carts, [key |-> "userId", owner |-> u,
                                       items |-> items, hasTotal |-> TRUE,
                                       total |-> total])
                   ELSE [carts EXCEPT ![at].items = items,
                                      ![at].hasTotal = TRUE,
                                      ![at].total = total]
       /\ resp' = Resp("cart.py", "update_cart", u, 200, "ok")
       /\ UNCHANGED <<products, orders, stockVars>>

\* the clear if it inserted an emptied record instead of updating the
\* stored one
ClearUserIdCartByInsert(cs, u) == Append(cs, NewCartDoc(u))

\* update_one({"userId": u}, {"$set": {"items": [], "total": 0}}) (cart.py
\* 143-150): no upsert, a user without a record is left without one
ClearUserIdCart(cs, u) ==
    LET at == FindCart(cs, "userId", u) IN
    IF at = 0 THEN cs
    ELSE [cs EXCEPT ![at].items = <<>>, ![at].hasTotal = TRUE, ![at].total = 0]

\* clear_cart (cart.py 137-155)
CartClear(u) ==
    /\ Serve
    /\ carts' = ClearUserIdCart(carts, u)
    /\ resp' = Resp("cart.py", "clear_cart", u, 200, "ok")
    /\ UNCHANGED <<products, orders, stockVars>>

(***************************************************************************)
(* app/api/orders.py, second half: cart handlers whose documents are      *)
(* keyed by "user" and store no total.                                    *)
(***************************************************************************)
\* product.get("stock", 0) < quantity (orders.py 243): "raise" when the
\* operands do not compare (None or a mapping against an int)
StockBelow(product, quantity) ==
    LET stock == IF product.stock = MissingV THEN IntV(0) ELSE product.stock IN
    IF stock.t \in {"int", "bool", "float"}
    THEN IF stock.v < quantity THEN "below" ELSE "enough"
    ELSE "raise"

\* product.get("promoPrice", product["price"]) (orders.py 250)
SnapshotPrice(product) ==
    IF product.promoPrice = MissingV THEN IntV(product.price)
    ELSE product.promoPrice

\* update_one({"user": u}, {"$push": {"items": item}}, upsert=True)
PushUpsert(cs, u, item) ==
    LET at == FindCart(cs, "user", u) IN
    IF at = 0
    THEN Append(cs, [key |-> "user", owner |-> u, items |-> <<item>>,
                     hasTotal |-> FALSE, total |-> 0])
    ELSE [cs EXCEPT ![at].items = Append(@, item)]

\* update_one({"user": u}, {"$set": {"items": items}}) with or without upsert
SetItems(cs, u, items, upsert) ==
    LET at == FindCart(cs, "user", u) IN
    IF at = 0
    THEN IF upsert
         THEN Append(cs, [key |-> "user", owner |-> u, items |-> items,
                          hasTotal |-> FALSE, total |-> 0])
         ELSE cs
    ELSE [cs EXCEPT ![at].items = items]

\* add_to_cart (orders.py 222-265)
OrdersAdd(u, productId, quantity) ==
    /\ Serve
    /\ IF ~IsValidObjectId(productId)
       THEN /\ resp' = RespFor("orders.py", "add_to_cart", u, 400, "ID produit invalide", productId)
            /\ UNCHANGED <<products, carts, orders, stockVars>>
       ELSE IF ~ProductFound(productId)
       THEN /\ resp' = RespFor("orders.py", "add_to_cart", u, 404, "Produit non trouve", productId)
            /\ UNCHANGED <<products, carts, orders, stockVars>>
       ELSE IF StockBelow(products[productId], quantity) = "raise"
       THEN /\ resp' = RespFor("orders.py", "add_to_cart", u, 500, "TypeError", productId)
            /\ UNCHANGED <<products, carts, orders, stockVars>>
       ELSE IF StockBelow(products[productId], quantity) = "below"
       THEN /\ resp' = RespFor("orders.py", "add_to_cart", u, 400, "Stock insuffisant", productId)
            /\ UNCHANGED <<products, carts, orders, stockVars>>
       ELSE LET item == [productId |-> productId,
                         price |-> SnapshotPrice(products[productId]),
                         quantity |-> quantity, size |-> Absent, color |-> Absent]
                cs == PushUpsert(carts, u, item)
            IN /\ WithinBounds(cs[FindCart(cs, "user", u)].items)
               /\ carts' = cs
               /\ resp' = RespFor("orders.py", "add_to_cart", u, 200, "ok", productId)
               /\ UNCHANGED <<products, orders, stockVars>>

\* position of items[item_index] in a list of n elements, 0 for IndexError
PyIndex(item_index, n) ==
    IF item_index >= 0
    THEN IF item_index < n THEN item_index + 1 ELSE 0
    ELSE IF n + item_index >= 0 THEN n + item_index + 1 ELSE 0

\* the list without its element at position k
RemoveAt(items, k) ==
    [i \in 1..(Len(items) - 1) |-> IF i < k THEN items[i] ELSE items[i + 1]]

\* update_cart_item (orders.py 293-318)
OrdersUpdateItem(u, item_index, quantity) ==
    /\ Serve
    /\ LET at == FindCart(carts, "user", u) IN
       IF at = 0 \/ item_index >= Len(carts[at].items)
       THEN /\ resp' = Resp("orders.py", "update_cart_item", u, 404, "Article non trouve")
            /\ UNCHANGED <<products, carts, orders, stockVars>>
       ELSE IF PyIndex(item_index, Len(carts[at].items)) = 0
       THEN /\ resp' = Resp("orders.py", "update_cart_item", u, 500, "IndexError")
            /\ UNCHANGED <<products, carts, orders, stockVars>>
       ELSE LET k == PyIndex(item_index, Len(carts[at].items))
                items == [carts[at].items EXCEPT ![k].quantity = quantity]
            IN /\ carts' = SetItems(carts, u, items, FALSE)
               /\ resp' = Resp("orders.py", "update_cart_item", u, 200, "ok")
               /\ UNCHANGED <<products, orders, stockVars>>

\* remove_from_cart (orders.py 321-345)
OrdersRemoveItem(u, item_index) ==
    /\ Serve
    /\ LET at == FindCart(carts, "user", u) IN
       IF at = 0 \/ item_index >= Len(carts[at].items)
       THEN /\ resp' = Resp("orders.py", "remove_from_cart", u, 404, "Article non trouve")
            /\ UNCHANGED <<products, carts, orders, stockVars>>
       ELSE IF PyIndex(item_index, Len(carts[at].items)) = 0
       THEN /\ resp' = Resp("orders.py", "remove_from_cart", u, 500, "IndexError")
            /\ UNCHANGED <<products, carts, orders, stockVars>>
       ELSE LET k == PyIndex(item_index, Len(carts[at].items))
                items == RemoveAt(carts[at].items, k)
            IN /\ carts' = SetItems(carts, u, items, FALSE)
               /\ resp' = Resp("orders.py", "remove_from_cart", u, 200, "ok")
               /\ UNCHANGED <<products, orders, stockVars>>

\* clear_cart (orders.py 348-362): upsert
OrdersClear(u) ==
    /\ Serve
    /\ carts' = SetItems(carts, u, <<>>, TRUE)
    /\ resp' = Resp("orders.py", "clear_cart", u, 200, "ok")
    /\ UNCHANGED <<products, orders, stockVars>>

(***************************************************************************)
(* app/api/orders.py, first half: create_order.                           *)
(***************************************************************************)
\* member names of the enumerations of schemas.py
PaymentStatus == {"pending", "paid", "failed", "refunded"}

OrderStatus == {"pending", "processing", "shipped", "delivered", "cancelled"}

\* an enum that also had the upper-case name PENDING
HasMemberWithPending(enum, name) == name \in enum \cup {"PENDING"}

\* Enum attribute access: a name that is not a member raises AttributeError
HasMember(enum, name) == name \in enum

\* what can go wrong in the store between and during the two writes
Faults == {"none", "insert_fails", "stops_after_insert"}

\* the order document of orders.py 54-64; it has no orderNumber, subtotal
\* or shippingCost key
OrderDoc(u, items, total) ==
    [user |-> u, items |-> items, total |-> total, status |-> "pending",
     paymentStatus |-> "pending", orderNumber |-> Absent,
     subtotal |-> MissingV, shippingCost |-> MissingV]

\* orders.py 66-73 on collections cs and os: insert_one, then the $set that
\* empties the cart
InsertThenClear(cs, os, u, order, fault) ==
    IF fault = "insert_fails"
    THEN [code |-> 500, detail |-> "insert_one failed", carts |-> cs, orders |-> os]
    ELSE IF fault = "stops_after_insert"
    THEN [code |-> 500, detail |-> "stopped", carts |-> cs,
          orders |-> Append(os, order)]
    ELSE [code |-> 200, detail |-> "ok", carts |-> SetItems(cs, u, <<>>, FALSE),
          orders |-> Append(os, order)]

\* create_order if it emptied the cart before building the order
CreateOrderOutcomeClearFirst(cs, os, u, fault) ==
    LET at == FindCart(cs, "user", u)
        cleared == SetItems(cs, u, <<>>, FALSE)
    IN
    IF at = 0 \/ Len(cs[at].items) = 0
    THEN [code |-> 400, detail |-> "Le panier est vide", carts |-> cs, orders |-> os]
    ELSE IF SumLines(cs[at].items).raised
    THEN [code |-> 500, detail |-> "TypeError", carts |-> cs, orders |-> os]
    ELSE IF ~HasMember(OrderStatus, "PENDING") \/ ~HasMember(PaymentStatus, "PENDING")
    THEN [code |-> 500, detail |-> "AttributeError", carts |-> cleared, orders |-> os]
    ELSE IF fault = "insert_fails"
    THEN [code |-> 500, detail |-> "insert_one failed", carts |-> cleared, orders |-> os]
    ELSE [code |-> 200, detail |-> "ok", carts |-> cleared,
          orders |-> Append(os, OrderDoc(u, cs[at].items,
                                         SumLines(cs[at].items).total))]

\* create_order if it tested only "not cart" and not the emptiness of items
CreateOrderOutcomeNoItemsTest(cs, os, u, fault) ==
    LET at == FindCart(cs, "user", u) IN
    IF at = 0
    THEN [code |-> 400, detail |-> "Le panier est vide", carts |-> cs, orders |-> os]
    ELSE IF SumLines(cs[at].items).raised
    THEN [code |-> 500, detail |-> "TypeError", carts |-> cs, orders |-> os]
    ELSE IF ~HasMember(OrderStatus, "PENDING") \/ ~HasMember(PaymentStatus, "PENDING")
    THEN [code |-> 500, detail |-> "AttributeError", carts |-> cs, orders |-> os]
    ELSE InsertThenClear(cs, os, u,
             OrderDoc(u, cs[at].items, SumLines(cs[at].items).total), fault)

\* create_order (orders.py 30-89): the response and the collections it leaves
CreateOrderOutcome(cs, os, u, fault) ==
    LET at == FindCart(cs, "user", u) IN
    IF at = 0 \/ Len(cs[at].items) = 0
    THEN [code |-> 400, detail |-> "Le panier est vide", carts |-> cs, orders |-> os]
    ELSE IF SumLines(cs[at].items).raised
    THEN [code |-> 500, detail |-> "TypeError", carts |-> cs, orders |-> os]
    ELSE IF ~HasMember(OrderStatus, "PENDING") \/ ~HasMember(PaymentStatus, "PENDING")
    THEN [code |-> 500, detail |-> "AttributeError", carts |-> cs, orders |-> os]
    ELSE InsertThenClear(cs, os, u,
             OrderDoc(u, cs[at].items, SumLines(cs[at].items).total), fault)

CreateOrder(u, fault) ==
    LET out == CreateOrderOutcome(carts, orders, u, fault) IN
    /\ Serve
    /\ carts' = out.carts
    /\ orders' = out.orders
    /\ resp' = Resp("orders.py", "create_order", u, out.code, out.detail)
    /\ UNCHANGED <<products, stockVars>>

(***************************************************************************)
(* app/api/products.py: the soft delete.                                  *)
(***************************************************************************)
\* delete_product (products.py 396-428)
DeleteProduct(productId) ==
    /\ Serve
    /\ IF ~IsValidObjectId(productId)
       THEN /\ resp' = Resp("products.py", "delete_product", "admin", 400, "ID produit invalide")
            /\ UNCHANGED <<products, carts, orders, stockVars>>
       ELSE IF ~ProductFound(productId)
       THEN /\ resp' = Resp("products.py", "delete_product", "admin", 404, "Produit non trouve")
            /\ UNCHANGED <<products, carts, orders, stockVars>>
       ELSE /\ products' = [products EXCEPT ![productId].active = FALSE]
            /\ resp' = Resp("products.py", "delete_product", "admin", 200, "ok")
            /\ UNCHANGED <<carts, orders, stockVars>>

\* ProductUpdate payloads (schemas.py 45-59): NoneV is a field left unset
NoUpdate ==
    [price |-> NoneV, promoPrice |-> NoneV, onPromotion |-> NoneV,
     active |-> NoneV, featured |-> NoneV, subcategory |-> Absent]

UpdatePayloads ==
    { [NoUpdate EXCEPT !.price = IntV(15)],
      [NoUpdate EXCEPT !.promoPrice = IntV(12), !.onPromotion = BoolV(TRUE)],
      [NoUpdate EXCEPT !.price = IntV(15), !.promoPrice = IntV(12),
                       !.onPromotion = BoolV(FALSE)] }

\* a key of update_data: a value that is None is not copied (products.py
\* 249-252)
NotNone(value) == IF value = NoneV THEN MissingV ELSE value

\* products.py 248-270: keep the fields that are not None; switching the
\* promotion off forces promoPrice to None; MissingV is a key update_data
\* does not have
UpdateData(data) ==
    [price |-> NotNone(data.price),
     promoPrice |-> IF data.onPromotion = BoolV(FALSE) THEN NoneV
                    ELSE NotNone(data.promoPrice),
     onPromotion |-> NotNone(data.onPromotion),
     active |-> NotNone(data.active),
     featured |-> NotNone(data.featured),
     subcategory |-> data.subcategory]

\* the product document after db.products.update_one(..., {"$set": update_data})
SetProduct(product, update_data) ==
    [product EXCEPT
       !.price = IF update_data.price = MissingV THEN @ ELSE update_data.price.v,
       !.promoPrice = IF update_data.promoPrice = MissingV THEN @
                      ELSE update_data.promoPrice,
       !.onPromotion = IF update_data.onPromotion = MissingV THEN @
                       ELSE update_data.onPromotion,
       !.active = IF update_data.active = MissingV THEN @
                  ELSE update_data.active.v = 1,
       !.featured = IF update_data.featured = MissingV THEN @
                    ELSE update_data.featured,
       !.subcategory = IF update_data.subcategory = Absent THEN @
                       ELSE update_data.subcategory]

\* an update_product that carried the new price into the lines of the stored
\* orders
RepriceOrders(os, productId, update_data) ==
    [i \in 1..Len(os) |->
        [os[i] EXCEPT !.items =
            [k \in 1..Len(os[i].items) |->
                IF os[i].items[k].productId = productId
                   /\ update_data.price # MissingV
                THEN [os[i].items[k] EXCEPT !.price = update_data.price]
                ELSE os[i].items[k]]]]

\* what update_product does to the orders collection: nothing
OrdersAfterProductUpdate(os, productId, update_data) == os

\* serialize_product (utils.py 38-72): the document with its id, promoPrice
\* and onPromotion defaulted when the keys are missing, and the stock total
serialize_product(id, product) ==
    [id |-> id, active |-> product.active, price |-> product.price,
     promoPrice |-> IF product.promoPrice = MissingV THEN NoneV
                    ELSE product.promoPrice,
     onPromotion |-> IF product.onPromotion = MissingV THEN BoolV(FALSE)
                     ELSE product.onPromotion,
     featured |-> product.featured, category |-> product.category,
     subcategory |-> product.subcategory, name |-> product.name,
     stock |-> product.stock,
     stockTotal |-> calculate_total_stock(product.stock).total,
     inStock |-> calculate_total_stock(product.stock).total > 0]

\* a $set that kept the keys of the stored stock the new one does not name
SetStockMerged(product, stock) ==
    [product EXCEPT !.stock =
        IF IsInstanceDict(@)
        THEN DictV(SelectSeq(@.d, LAMBDA e : \A i \in 1..Len(stock.d) :
                                               stock.d[i][1] # e[1])
                   \o stock.d)
        ELSE stock]

\* the document after {"$set": {"stock": stock, ...}} (products.py 365-368)
SetStock(product, stock) == [product EXCEPT !.stock = stock]

\* update_product (products.py 229-315): the HTTPExceptions raised inside
\* the try are caught by "except Exception" and come out as 500
UpdateProduct(productId, data) ==
    /\ Serve
    /\ IF ~IsValidObjectId(productId)
       THEN /\ resp' = RespFor("products.py", "update_product", "admin", 500, "ID produit invalide", productId)
            /\ UNCHANGED <<products, carts, orders, stockVars>>
       ELSE IF ~ProductFound(productId)
       THEN /\ resp' = RespFor("products.py", "update_product", "admin", 500, "Produit non trouve", productId)
            /\ UNCHANGED <<products, carts, orders, stockVars>>
       ELSE /\ products' = [products EXCEPT
                               ![productId] = SetProduct(@, UpdateData(data))]
            /\ orders' = OrdersAfterProductUpdate(orders, productId, UpdateData(data))
            /\ resp' = [RespFor("products.py", "update_product", "admin", 200, "ok", productId)
                           EXCEPT !.data = <<serialize_product(productId, products'[productId])>>]
            /\ UNCHANGED <<carts, stockVars>>

\* update_product_stock (products.py 322-389): the stock is replaced whole
UpdateProductStock(productId, stock) ==
    /\ Serve
    /\ IF ~IsValidObjectId(productId)
       THEN /\ resp' = RespFor("products.py", "update_product_stock", "admin", 400, "ID produit invalide", productId)
            /\ UNCHANGED <<products, carts, orders, stockVars>>
       ELSE IF ~ProductFound(productId)
       THEN /\ resp' = RespFor("products.py", "update_product_stock", "admin", 404, "Produit non trouve", productId)
            /\ UNCHANGED <<products, carts, orders, stockVars>>
       ELSE /\ products' = [products EXCEPT ![productId] = SetStock(@, stock)]
            /\ resp' = [RespFor("products.py", "update_product_stock", "admin", 200, "ok", productId)
                           EXCEPT !.data = <<serialize_product(productId, products'[productId])>>]
            /\ UNCHANGED <<carts, orders, stockVars>>

(***************************************************************************)
(* app/api/orders.py, first half: the read handlers.  An order's _id is    *)
(* its position in the collection.                                         *)
(***************************************************************************)
\* order ids a request can carry: the first and second order inserted, and a
\* string that is not an ObjectId
OrderRequestIds == {"o1", "o2", "bad"}

OrderPosition(order_id) ==
    IF order_id = "o1" THEN 1 ELSE IF order_id = "o2" THEN 2 ELSE 0

\* the body fields of orders.py 111-121 and 155-165
SerializeOrder(os, k) ==
    [id |-> k, userId |-> os[k].user, items |-> os[k].items,
     total |-> os[k].total, status |-> os[k].status,
     paymentStatus |-> os[k].paymentStatus]

\* a lookup by _id alone
FindOrderAnyOwner(os, order_id, u) ==
    IF OrderPosition(order_id) <= Len(os) THEN OrderPosition(order_id) ELSE 0

\* db.orders.find_one({"_id": obj_id, "user": user_id}) (orders.py 148):
\* the position of the order, 0 when no document matches
FindOrder(os, order_id, u) ==
    LET k == OrderPosition(order_id) IN
    IF k >= 1 /\ k <= Len(os) /\ os[k].user = u THEN k ELSE 0

\* db.orders.find({"user": user_id}).sort("createdAt", -1) (orders.py 105):
\* the positions of the user's orders, latest first
RECURSIVE OwnOrdersFrom(_, _, _)
OwnOrdersFrom(os, u, k) ==
    IF k = 0 THEN <<>>
    ELSE IF os[k].user = u THEN <<k>> \o OwnOrdersFrom(os, u, k - 1)
    ELSE OwnOrdersFrom(os, u, k - 1)

\* get_order (orders.py 130-166)
GetOrder(u, order_id) ==
    /\ Serve
    /\ IF order_id = "bad"
       THEN resp' = [Resp("orders.py", "get_order", u, 400, "ID de commande invalide")
                        EXCEPT !.orderId = order_id]
       ELSE IF FindOrder(orders, order_id, u) = 0
       THEN resp' = [Resp("orders.py", "get_order", u, 404, "Commande non trouvee")
                        EXCEPT !.orderId = order_id]
       ELSE resp' = [Resp("orders.py", "get_order", u, 200, "ok")
                        EXCEPT !.orderId = order_id,
                               !.data = <<SerializeOrder(orders,
                                            FindOrder(orders, order_id, u))>>]
    /\ UNCHANGED <<products, carts, orders, stockVars>>

\* get_user_orders (orders.py 92-127) with the default skip and limit
GetUserOrders(u) ==
    /\ Serve
    /\ LET own == OwnOrdersFrom(orders, u, Len(orders)) IN
       resp' = [Resp("orders.py", "get_user_orders", u, 200, "ok")
                   EXCEPT !.data = [i \in 1..Len(own) |->
                                       SerializeOrder(orders, own[i])]]
    /\ UNCHANGED <<products, carts, orders, stockVars>>

(***************************************************************************)
(* The catalog: create_product and the listings of app/api/products.py    *)
(* and the categories aggregation of main.py.  A listing answers with the *)
(* serialized documents its query matches, newest first.                  *)
(***************************************************************************)
\* the id the store gives to a created product
NewProductIds == {"p3"}

CatalogRequestIds == RequestIds \cup NewProductIds

\* the product ids from the newest document to the oldest
NewestFirst == <<"p3", "p2", "p1">>

\* ProductCreate payloads (schemas.py 33-42): the model has no onPromotion,
\* promoPrice, featured or subcategory field, and stock defaults to None
CreatePayloads ==
    { [name |-> "robe", category |-> "vetement", price |-> 20, stock |-> NoneV],
      [name |-> "oud", category |-> "parfum", price |-> 10,
       stock |-> ExampleNested] }

\* the document create_product inserts (products.py 174-203): active, with
\* promoPrice None because the payload has no onPromotion key, and with the
\* stock key of data.dict() as it is
NewProductDoc(data) ==
    [active |-> TRUE, price |-> data.price, promoPrice |-> NoneV,
     stock |-> data.stock, onPromotion |-> MissingV, featured |-> MissingV,
     category |-> data.category, subcategory |-> Absent, name |-> data.name]

\* create_product (products.py 165-222)
CreateProduct(data) ==
    /\ Serve
    /\ \E id \in NewProductIds \ DOMAIN products :
          /\ products' = (id :> NewProductDoc(data)) @@ products
          /\ resp' = [RespFor("products.py", "create_product", "admin", 200, "ok", id)
                         EXCEPT !.data = <<serialize_product(id, products'[id])>>]
    /\ UNCHANGED <<carts, orders, stockVars>>

\* bodies of update_product_stock (products.py 331-346): a flat stock, a
\* color -> size -> count stock, and the empty stock
StockPayloads == {ExampleFlat, ExampleNested, DictV(<<>>)}

\* the update_product payloads the catalog is driven with
CatalogPayloads ==
    UpdatePayloads \cup
    { [NoUpdate EXCEPT !.promoPrice = IntV(12)],
      [NoUpdate EXCEPT !.onPromotion = BoolV(FALSE)],
      [NoUpdate EXCEPT !.active = BoolV(FALSE)],
      [NoUpdate EXCEPT !.active = BoolV(TRUE), !.featured = BoolV(TRUE)],
      [NoUpdate EXCEPT !.subcategory = "50ml"] }

\* a find query: Absent and NoneV are criteria the query does not have;
\* text is the $regex of the $or, onCategory whether the $or names category
NoCriteria ==
    [category |-> Absent, text |-> Absent, onCategory |-> FALSE,
     featured |-> NoneV, onPromotion |-> NoneV]

\* {"$regex": text, "$options": "i"} on a field: the texts and the fields
\* are whole lower-case words, none contained in another
RegexMatch(text, field) == text = field

\* a query that left {"active": True} out
MatchesInactiveToo(product, query) ==
    /\ query.category # Absent => product.category = query.category
    /\ query.text # Absent =>
          \/ RegexMatch(query.text, product.name)
          \/ query.onCategory /\ RegexMatch(query.text, product.category)
    /\ query.featured # NoneV => product.featured = query.featured
    /\ query.onPromotion # NoneV => product.onPromotion = query.onPromotion

\* the document matches the query; every query of the listings is built on
\* {"active": True} (products.py 47, 139, 441, 462, 490; main.py 74)
Matches(product, query) ==
    /\ product.active = TRUE
    /\ query.category # Absent => product.category = query.category
    /\ query.text # Absent =>
          \/ RegexMatch(query.text, product.name)
          \/ query.onCategory /\ RegexMatch(query.text, product.category)
    /\ query.featured # NoneV => product.featured = query.featured
    /\ query.onPromotion # NoneV => product.onPromotion = query.onPromotion

\* db.products.find(query) sorted newest first, each document serialized
RECURSIVE FindProducts(_, _, _)
FindProducts(ps, query, k) ==
    IF k > Len(NewestFirst) THEN <<>>
    ELSE LET id == NewestFirst[k] IN
         IF id \in DOMAIN ps /\ Matches(ps[id], query)
         THEN <<serialize_product(id, ps[id])>> \o FindProducts(ps, query, k + 1)
         ELSE FindProducts(ps, query, k + 1)

\* the answer of a listing handler
Listing(op, query) ==
    /\ Serve
    /\ resp' = [Resp("products.py", op, "anyone", 200, "ok")
                   EXCEPT !.data = FindProducts(products, query, 1)]
    /\ UNCHANGED <<products, carts, orders, stockVars>>

\* get_products (products.py 24-98): a filter is added when it is supplied
GetProducts(category, search, featured, promotion) ==
    Listing("get_products",
            [NoCriteria EXCEPT !.category = category, !.text = search,
                               !.featured = featured, !.onPromotion = promotion])

\* get_products_by_category (products.py 130-158)
GetProductsByCategory(category) ==
    Listing("get_products_by_category", [NoCriteria EXCEPT !.category = category])

\* get_featured_products (products.py 435-453)
GetFeaturedProducts ==
    Listing("get_featured_products", [NoCriteria EXCEPT !.featured = BoolV(TRUE)])

\* get_promotion_products (products.py 456-474)
GetPromotionProducts ==
    Listing("get_promotion_products",
            [NoCriteria EXCEPT !.onPromotion = BoolV(TRUE)])

\* search_products (products.py 477-513): the $or also names category
SearchProducts(query_text) ==
    Listing("search_products",
            [NoCriteria EXCEPT !.text = query_text, !.onCategory = TRUE])

Categories == <<"parfum", "vetement">>

Subcategories == <<"50ml">>

\* the documents the $match of the pipeline lets through (main.py 74)
Matched(ps) == { id \in DOMAIN ps : Matches(ps[id], NoCriteria) }

\* the "count" of the $group for one category and subcategory
GroupCount(ps, category, subcategory) ==
    Cardinality({ id \in Matched(ps) : /\ ps[id].category = category
                                        /\ ps[id].subcategory = subcategory })

\* the "subcategories" list built for one category (main.py 99-103)
RECURSIVE SubcategoriesOf(_, _, _)
SubcategoriesOf(ps, category, k) ==
    IF k > Len(Subcategories) THEN <<>>
    ELSE IF GroupCount(ps, category, Subcategories[k]) > 0
    THEN <<[name |-> Subcategories[k],
            productCount |-> GroupCount(ps, category, Subcategories[k])]>>
         \o SubcategoriesOf(ps, category, k + 1)
    ELSE SubcategoriesOf(ps, category, k + 1)

\* list(categories_map.values()) in the order of the $sort (main.py 82-107)
RECURSIVE CategoriesMap(_, _)
CategoriesMap(ps, k) ==
    IF k > Len(Categories) THEN <<>>
    ELSE IF \E id \in Matched(ps) : ps[id].category = Categories[k]
    THEN <<[name |-> Categories[k],
            subcategories |-> SubcategoriesOf(ps, Categories[k], 1)]>>
         \o CategoriesMap(ps, k + 1)
    ELSE CategoriesMap(ps, k + 1)

\* get_categories (main.py 65-108): the $group leaves a missing subcategory
\* out of _id, and item["_id"]["subcategory"] then raises KeyError
GetCategories ==
    /\ Serve
    /\ IF \E id \in Matched(products) : products[id].subcategory = Absent
       THEN resp' = Resp("main.py", "get_categories", "anyone", 500, "KeyError")
       ELSE resp' = [Resp("main.py", "get_categories", "anyone", 200, "ok")
                       EXCEPT !.data = CategoriesMap(products, 1)]
    /\ UNCHANGED <<products, carts, orders, stockVars>>

(***************************************************************************)
(* app/api/cart.py step by step: every await of get_cart and add_to_cart   *)
(* is a point where another request of the event loop can run.  A request  *)
(* in flight keeps what the handler holds in its local variables: mine is  *)
(* the position of the cart document it read or inserted (its _id), items  *)
(* the lines of its local copy.                                            *)
(***************************************************************************)
RequestIdsInFlight == 1..MaxRequests

Idle == [kind |-> "none", user |-> "none", pc |-> "idle", mine |-> 0,
         items |-> <<>>, code |-> 0]

NoRequests == [r \in RequestIdsInFlight |-> Idle]

raceFrame == <<stockIn, stockRes, products, orders, resp, nops, users>>

\* the line every add_to_cart of the interleaved runs asks for
RaceItem ==
    [productId |-> "p1", price |-> IntV(products["p1"].price), quantity |-> 1,
     size |-> "S", color |-> "Noir"]

\* a get_cart or add_to_cart request of user u starts
Arrive(r, kind, u) ==
    /\ reqs[r].pc = "idle"
    /\ reqs' = [reqs EXCEPT ![r] = [Idle EXCEPT !.kind = kind, !.user = u,
                                                !.pc = "find"]]
    /\ UNCHANGED <<carts, raceFrame>>

\* cart.py 17 and 56: cart = await db.carts.find_one({"userId": user_id})
FindStep(r) ==
    /\ reqs[r].pc = "find"
    /\ LET at == FindCart(carts, "userId", reqs[r].user) IN
       reqs' = [reqs EXCEPT
                  ![r].mine = at,
                  ![r].items = IF at = 0 THEN <<>> ELSE carts[at].items,
                  ![r].pc = IF at = 0 THEN "insert"
                            ELSE IF reqs[r].kind = "get" THEN "done" ELSE "update",
                  ![r].code = IF at # 0 /\ reqs[r].kind = "get" THEN 200 ELSE 0]
    /\ UNCHANGED <<carts, raceFrame>>

\* cart.py 21-28 (get_cart) and 58-65 (add_to_cart): "if not cart", insert
\* the empty cart
InsertStep(r) ==
    /\ reqs[r].pc = "insert"
    /\ carts' = Append(carts, NewCartDoc(reqs[r].user))
    /\ reqs' = [reqs EXCEPT
                  ![r].mine = Len(carts) + 1,
                  ![r].pc = IF reqs[r].kind = "get" THEN "done" ELSE "update",
                  ![r].code = IF reqs[r].kind = "get" THEN 200 ELSE 0]
    /\ UNCHANGED raceFrame

\* cart.py 77-98: merge the line into the local copy, then
\* update_one({"userId": user_id}, {"$set": cart}); cart holds its _id, and
\* the store refuses a $set that would change the _id of the matched document
UpdateStep(r) ==
    /\ reqs[r].pc = "update"
    /\ LET at == FindCart(carts, "userId", reqs[r].user)
           items == MergeOrAppend(reqs[r].items, RaceItem)
       IN IF at # reqs[r].mine
          THEN /\ carts' = carts
               /\ reqs' = [reqs EXCEPT ![r].pc = "done", ![r].code = 500]
          ELSE /\ carts' = [carts EXCEPT ![at].items = items,
                                         ![at].hasTotal = TRUE,
                                         ![at].total = SumLines(items).total]
               /\ reqs' = [reqs EXCEPT ![r].pc = "done", ![r].items = items,
                                       ![r].code = 200]
    /\ UNCHANGED raceFrame

InitRace ==
    /\ stockIn = NoneV
    /\ stockRes = NoRes
    /\ products = [p \in ProductIds |-> LegacyProduct]
    /\ carts = <<>>
    /\ orders = <<>>
    /\ resp = NoResp
    /\ nops = 0
    /\ reqs = NoRequests
    /\ users = SeedUsers

NextRace ==
    \/ \E r \in RequestIdsInFlight, kind \in {"get", "add"}, u \in Users :
          Arrive(r, kind, u)
    \/ \E r \in RequestIdsInFlight : FindStep(r)
    \/ \E r \in RequestIdsInFlight : InsertStep(r)
    \/ \E r \in RequestIdsInFlight : UpdateStep(r)

SpecRace == InitRace /\ [][NextRace]_vars

Init ==
    /\ stockIn = NoneV
    /\ stockRes = NoRes
    /\ products \in SeedCatalogs
    /\ carts = <<>>
    /\ orders = <<>>
    /\ resp = NoResp
    /\ nops = 0
    /\ reqs = NoRequests
    /\ users = SeedUsers

InitStock ==
    /\ stockIn \in StockInputs
    /\ stockRes = NoRes
    /\ products = [p \in ProductIds |-> LegacyProduct]
    /\ carts = <<>>
    /\ orders = <<>>
    /\ resp = NoResp
    /\ nops = 0
    /\ reqs = NoRequests
    /\ users = SeedUsers

\* a call of calculate_total_stock on the structure
CalculateTotalStock ==
    /\ stockRes.op = "none"
    /\ stockIn # MissingV
    /\ LET r == calculate_total_stock(stockIn) IN
       stockRes' = [op |-> "calculate", raised |-> r.raised,
                    total |-> r.total, inStock |-> FALSE]
    /\ UNCHANGED <<stockIn, reqs, users, storeVars>>

\* serialize_product on a product document whose stock field is stockIn
\* (MissingV: the document has no stock field)
SerializeProduct ==
    /\ stockRes.op = "none"
    /\ LET stock == IF stockIn = MissingV THEN DictV(<<>>) ELSE stockIn
           r == calculate_total_stock(stock)
       IN stockRes' = [op |-> "serialize", raised |-> r.raised,
                       total |-> r.total, inStock |-> r.total > 0]
    /\ UNCHANGED <<stockIn, reqs, users, storeVars>>

Next ==
    \/ \E u \in Users : CartGet(u)
    \/ \E u \in Users, productId \in RequestIds, quantity \in Qtys,
          size \in Sizes, color \in Colors :
          CartAdd(u, productId, quantity, size, color)
    \/ \E u \in Users, items \in ReplacePayloads : CartReplace(u, items)
    \/ \E u \in Users : CartClear(u)
    \/ \E u \in Users, productId \in RequestIds, quantity \in Qtys :
          OrdersAdd(u, productId, quantity)
    \/ \E u \in Users, item_index \in Indexes, quantity \in Qtys :
          OrdersUpdateItem(u, item_index, quantity)
    \/ \E u \in Users, item_index \in Indexes : OrdersRemoveItem(u, item_index)
    \/ \E u \in Users : OrdersClear(u)
    \/ \E u \in Users, fault \in Faults : CreateOrder(u, fault)
    \/ \E productId \in RequestIds : DeleteProduct(productId)

Spec == Init /\ [][Next]_vars

NextStock == CalculateTotalStock \/ SerializeProduct

SpecStock == InitStock /\ [][NextStock]_vars

\* an order document of the shape of orders.py 54-64 that the orders
\* collection holds when the server starts
(***************************************************************************)
(* Authentication (app/core/security.py) and the user administration of   *)
(* app/api/users.py.  A token is the signed payload {"id": user id}; it   *)
(* carries no role.                                                        *)
(***************************************************************************)
\* create_access_token (security.py 32-42) on the payload {"id": id}
create_access_token(id) == [id |-> id, signed |-> TRUE]

\* the tokens requests come with: one issued to every account at login or
\* registration (auth.py 66), and one that jwt.decode refuses
Tokens ==
    { create_access_token(id) : id \in Accounts }
        \cup {[id |-> "a1", signed |-> FALSE]}

UserRequestIds == Accounts \cup {"bad"}

Roles == {"admin", "user", "root"}

\* the role the account had when its token was issued
RoleAtIssue(us, id) == SeedUsers[id].role

\* current_user.get("role") on the document find_one returned (security.py
\* 62, 72)
StoredRole(us, id) == us[id].role

\* get_current_user (security.py 45-67): decode the token, then look the
\* user up in db.users
get_current_user(us, token) ==
    IF ~token.signed
    THEN [code |-> 401, detail |-> "Token invalide", id |-> token.id]
    ELSE IF token.id \notin DOMAIN us
    THEN [code |-> 404, detail |-> "Utilisateur non trouve", id |-> token.id]
    ELSE [code |-> 200, detail |-> "ok", id |-> token.id]

\* get_current_admin (security.py 70-74)
get_current_admin(us, token) ==
    LET current_user == get_current_user(us, token) IN
    IF current_user.code # 200 THEN current_user
    ELSE IF StoredRole(us, token.id) # "admin"
    THEN [current_user EXCEPT !.code = 403,
                              !.detail = "Acces reserve aux administrateurs"]
    ELSE current_user

\* the answer when a dependency raised: the handler does not run
Refuse(file, op, auth) ==
    /\ Serve
    /\ resp' = Resp(file, op, auth.id, auth.code, auth.detail)
    /\ UNCHANGED <<products, carts, orders, stockVars>>

\* the answer of a handler of users.py, with the users collection it leaves
AnswerUsers(op, caller, code, detail, us) ==
    /\ Serve
    /\ resp' = Resp("users.py", op, caller, code, detail)
    /\ users' = us
    /\ UNCHANGED <<products, carts, orders, stockIn, stockRes, reqs>>

\* update_user_role (users.py 119-168); the $set also writes updatedAt, so
\* the update modifies the document even when the role is the one stored
UpdateUserRole(token, user_id, new_role) ==
    LET admin == get_current_admin(users, token) IN
    IF admin.code # 200 THEN Refuse("users.py", "update_user_role", admin)
    ELSE IF ~IsValidObjectId(user_id)
    THEN AnswerUsers("update_user_role", admin.id, 400, "ID utilisateur invalide", users)
    ELSE IF new_role \notin {"admin", "user"}
    THEN AnswerUsers("update_user_role", admin.id, 400, "Role invalide", users)
    ELSE IF user_id \notin DOMAIN users
    THEN AnswerUsers("update_user_role", admin.id, 404, "Utilisateur non trouve", users)
    ELSE AnswerUsers("update_user_role", admin.id, 200, "ok",
                     [users EXCEPT ![user_id].role = new_role])

\* delete_user (users.py 175-209)
DeleteUser(token, user_id) ==
    LET admin == get_current_admin(users, token) IN
    IF admin.code # 200 THEN Refuse("users.py", "delete_user", admin)
    ELSE IF ~IsValidObjectId(user_id)
    THEN AnswerUsers("delete_user", admin.id, 400, "ID utilisateur invalide", users)
    ELSE IF admin.id = user_id
    THEN AnswerUsers("delete_user", admin.id, 403, "Impossible de se supprimer soi-meme", users)
    ELSE IF user_id \notin DOMAIN users
    THEN AnswerUsers("delete_user", admin.id, 404, "Utilisateur non trouve", users)
    ELSE AnswerUsers("delete_user", admin.id, 200, "ok",
                     [id \in DOMAIN users \ {user_id} |-> users[id]])

\* delete_product behind its dependency get_current_admin (products.py 399)
DeleteProductAs(token, productId) ==
    LET admin == get_current_admin(users, token) IN
    IF admin.code # 200 THEN Refuse("products.py", "delete_product", admin)
    ELSE DeleteProduct(productId)

\* get_cart of cart.py behind its dependency get_current_user (cart.py 12)
GetCartAs(token) ==
    LET current_user == get_current_user(users, token) IN
    IF current_user.code # 200 THEN Refuse("cart.py", "get_cart", current_user)
    ELSE CartGet(current_user.id)

(***************************************************************************)
(* create_order of app/api/orders.py step by step: the handler awaits the *)
(* find_one of the cart, the insert_one of the order and the update_one   *)
(* that empties the cart, and another request can run at each await.      *)
(***************************************************************************)
\* a create_order request of user u starts
CommitArrive(r, u) ==
    /\ reqs[r].pc = "idle"
    /\ reqs' = [reqs EXCEPT ![r] = [Idle EXCEPT !.kind = "commit", !.user = u,
                                                !.pc = "find"]]
    /\ UNCHANGED <<carts, raceFrame>>

\* orders.py 45-64: the cart comes back from find_one, then the emptiness
\* test, the total and the order document run to the next await or to the
\* exception that ends the request
CommitFind(r) ==
    LET at == FindCart(carts, "user", reqs[r].user) IN
    /\ reqs' = [reqs EXCEPT ![r] =
          IF at = 0 \/ Len(carts[at].items) = 0
          THEN [@ EXCEPT !.pc = "done", !.code = 400]
          ELSE IF SumLines(carts[at].items).raised
          THEN [@ EXCEPT !.pc = "done", !.code = 500, !.items = carts[at].items]
          ELSE IF \/ ~HasMember(OrderStatus, "PENDING")
                  \/ ~HasMember(PaymentStatus, "PENDING")
          THEN [@ EXCEPT !.pc = "done", !.code = 500, !.items = carts[at].items]
          ELSE [@ EXCEPT !.pc = "insert", !.items = carts[at].items]]
    /\ UNCHANGED <<carts, orders>>

\* orders.py 66: result = await db.orders.insert_one(order)
CommitInsert(r) ==
    /\ orders' = Append(orders, OrderDoc(reqs[r].user, reqs[r].items,
                                         SumLines(reqs[r].items).total))
    /\ reqs' = [reqs EXCEPT ![r].pc = "clear"]
    /\ UNCHANGED carts

\* orders.py 70-73: the $set that empties the cart, then the answer
CommitClear(r) ==
    /\ carts' = SetItems(carts, reqs[r].user, <<>>, FALSE)
    /\ reqs' = [reqs EXCEPT ![r].pc = "done", ![r].code = 200]
    /\ UNCHANGED orders

\* the event loop resumes request r at the await it is waiting on
CommitResume(r) ==
    /\ reqs[r].kind = "commit"
    /\ reqs[r].pc \in {"find", "insert", "clear"}
    /\ CASE reqs[r].pc = "find" -> CommitFind(r)
         [] reqs[r].pc = "insert" -> CommitInsert(r)
         [] reqs[r].pc = "clear" -> CommitClear(r)
    /\ UNCHANGED <<stockIn, stockRes, products, resp, nops, users>>

\* the lines of the cart that is committed: one, or two of them
CommitLines ==
    { << [productId |-> "p1", price |-> IntV(10), quantity |-> 2,
          size |-> Absent, color |-> Absent] >>,
      << [productId |-> "p1", price |-> IntV(10), quantity |-> 2,
          size |-> Absent, color |-> Absent],
         [productId |-> "p2", price |-> IntV(10), quantity |-> 1,
          size |-> Absent, color |-> Absent] >> }

\* u1 has lines in the cart, the cart of u2 has been emptied
InitCommit ==
    /\ stockIn = NoneV
    /\ stockRes = NoRes
    /\ products = [p \in ProductIds |-> LegacyProduct]
    /\ \E items \in CommitLines :
          carts = SetItems(SetItems(<<>>, "u1", items, TRUE), "u2", <<>>, TRUE)
    /\ orders = <<>>
    /\ resp = NoResp
    /\ nops = 0
    /\ reqs = NoRequests
    /\ users = SeedUsers

NextCommit ==
    \/ \E r \in RequestIdsInFlight, u \in Users : CommitArrive(r, u)
    \/ \E r \in RequestIdsInFlight : CommitResume(r)

SpecCommit == InitCommit /\ [][NextCommit]_vars

\* the catalog as it stands when requests start to arrive
InitCatalog ==
    /\ stockIn = NoneV
    /\ stockRes = NoRes
    /\ products = [p \in ProductIds |-> IF p = "p1" THEN PromoProduct
                                        ELSE ApparelProduct]
    /\ carts = <<>>
    /\ orders = <<>>
    /\ resp = NoResp
    /\ nops = 0
    /\ reqs = NoRequests
    /\ users = SeedUsers

NextCatalog ==
    \/ \E data \in CreatePayloads : CreateProduct(data)
    \/ \E productId \in CatalogRequestIds, data \in CatalogPayloads :
          UpdateProduct(productId, data)
    \/ \E productId \in CatalogRequestIds, stock \in StockPayloads :
          UpdateProductStock(productId, stock)
    \/ \E productId \in CatalogRequestIds : DeleteProduct(productId)
    \/ \E category \in {Absent, "parfum"}, search \in {Absent, "robe"},
          featured \in {NoneV, BoolV(TRUE)}, promotion \in {NoneV, BoolV(FALSE)} :
          GetProducts(category, search, featured, promotion)
    \/ \E category \in {"parfum", "vetement"} : GetProductsByCategory(category)
    \/ GetFeaturedProducts
    \/ GetPromotionProducts
    \/ \E query_text \in {"oud", "vetement"} : SearchProducts(query_text)
    \/ GetCategories

SpecCatalog == InitCatalog /\ [][NextCatalog]_vars

InitUsers == Init

NextUsers ==
    \/ \E token \in Tokens, user_id \in UserRequestIds, new_role \in Roles :
          UpdateUserRole(token, user_id, new_role)
    \/ \E token \in Tokens, user_id \in UserRequestIds :
          DeleteUser(token, user_id)
    \/ \E token \in Tokens, productId \in {"p1", "bad"} :
          DeleteProductAs(token, productId)
    \/ \E token \in Tokens : GetCartAs(token)

SpecUsers == InitUsers /\ [][NextUsers]_vars

ArchivedOrder ==
    OrderDoc("u1",
             << [productId |-> "p1", price |-> IntV(10), quantity |-> 1,
                 size |-> Absent, color |-> Absent] >>,
             10)

\* the store with an order on record: the request that left it has been
\* served
InitArchive ==
    /\ stockIn = NoneV
    /\ stockRes = NoRes
    /\ products = [p \in ProductIds |-> IF p = "p1" THEN LegacyProduct
                                        ELSE ApparelProduct]
    /\ carts = <<>>
    /\ orders = <<ArchivedOrder>>
    /\ resp = NoResp
    /\ nops = 1
    /\ reqs = NoRequests
    /\ users = SeedUsers

NextArchive ==
    \/ Next
    \/ \E productId \in RequestIds, data \in UpdatePayloads :
          UpdateProduct(productId, data)
    \/ \E productId \in RequestIds, stock \in {ExampleFlat, ExampleNested} :
          UpdateProductStock(productId, stock)
    \/ \E u \in Users, order_id \in OrderRequestIds : GetOrder(u, order_id)
    \/ \E u \in Users : GetUserOrders(u)

SpecArchive == InitArchive /\ [][NextArchive]_vars

(***************************************************************************)
(* Properties.                                                             *)
(***************************************************************************)
CartKeys == {"userId", "user"}

\* the lines of the cart document of user u under the given key
LinesOf(cs, key, u) ==
    IF FindCart(cs, key, u) = 0 THEN <<>> ELSE cs[FindCart(cs, key, u)].items

\* sum of price * quantity over a set of line positions
RECURSIVE LineSum(_, _)
LineSum(items, positions) ==
    IF positions = {} THEN 0
    ELSE LET k == CHOOSE x \in positions : TRUE IN
         items[k].price.v * items[k].quantity + LineSum(items, positions \ {k})

LineTotal(items) == LineSum(items, 1..Len(items))

\* the step is a create_order request of user u
IsCommitBy(u) ==
    resp'.op = "create_order" /\ resp'.user = u /\ nops' = nops + 1

\* the step is a successful add_to_cart request of user u
IsAddBy(u) ==
    /\ resp'.op = "add_to_cart" /\ resp'.user = u /\ nops' = nops + 1
    /\ resp'.code = 200

\* no two lines share productId, size and color
NoDuplicateKey(items) ==
    \A i, j \in 1..Len(items) :
        (/\ items[i].productId = items[j].productId
         /\ items[i].size = items[j].size
         /\ items[i].color = items[j].color) => i = j

\* every line has a quantity of at least 1
PositiveLines(items) == \A i \in 1..Len(items) : items[i].quantity >= 1

\* C1: a commit of a user whose cart holds lines adds exactly one order,
\* whose total is the cart total before the commit, and leaves the cart
\* with no line.
C1_CommitCreatesOrderAndEmptiesCart ==
    [][\A u \in Users, key \in CartKeys :
          (/\ IsCommitBy(u)
           /\ Len(LinesOf(carts, key, u)) > 0
           /\ PositiveLines(LinesOf(carts, key, u)))
          => /\ Len(orders') = Len(orders) + 1
             /\ orders'[Len(orders')].user = u
             /\ orders'[Len(orders')].total = LineTotal(LinesOf(carts, key, u))
             /\ Len(LinesOf(carts', key, u)) = 0]_vars

\* C2: a commit changes the carts collection only by emptying the cart it
\* read, and only together with the insertion of an order that holds the
\* lines of that cart; the other outcomes are no write at all, or the order
\* inserted and the cart left as it was.
C2_CartClearedOnlyAfterOrder ==
    [][\A u \in Users :
          IsCommitBy(u)
          => LET at == FindCart(carts, "user", u)
                 lines == LinesOf(carts, "user", u)
                 inserted == /\ Len(orders') = Len(orders) + 1
                             /\ SubSeq(orders', 1, Len(orders)) = orders
                             /\ orders'[Len(orders')].user = u
                             /\ orders'[Len(orders')].items = lines
                             /\ Len(lines) > 0
             IN /\ orders' = orders \/ inserted
                /\ carts' = carts
                   \/ (/\ inserted
                       /\ at # 0
                       /\ carts' = [carts EXCEPT ![at].items = <<>>])]_vars

\* C2 witness: a commit on a cart with lines has failed to create an order
\* and the cart still holds its lines.
C2_Witness ==
    /\ resp.op = "create_order"
    /\ resp.code = 500
    /\ orders = <<>>
    /\ Len(LinesOf(carts, "user", resp.user)) > 0

\* C3: a commit of a user none of whose cart records holds a line fails
\* with "Le panier est vide" (400) and writes neither collection.
C3_EmptyCartNoWrites ==
    [][\A u \in Users :
          (IsCommitBy(u) /\ \A key \in CartKeys : Len(LinesOf(carts, key, u)) = 0)
          => /\ resp'.code = 400
             /\ resp'.detail = "Le panier est vide"
             /\ carts' = carts
             /\ orders' = orders]_vars

\* C3 witness: a commit was refused as empty for a user whose cart record
\* exists with zero items.
C3_Witness ==
    /\ resp.op = "create_order"
    /\ resp.code = 400
    /\ \E i \in 1..Len(carts) :
          carts[i].owner = resp.user /\ carts[i].key = "user" /\ carts[i].items = <<>>
    /\ \A key \in CartKeys : Len(LinesOf(carts, key, resp.user)) = 0

\* C4: a commit of a user whose cart record written by the add_to_cart of
\* cart.py holds a line is not refused as an empty cart.
C4_CheckoutReadsTheCartRecord ==
    [][\A u \in Users :
          (/\ IsCommitBy(u)
           /\ Len(LinesOf(carts, "userId", u)) > 0
           /\ PositiveLines(LinesOf(carts, "userId", u)))
          => ~(resp'.code = 400 /\ resp'.detail = "Le panier est vide")]_vars

\* C5: every cart record that holds lines (of positive quantity) stores a
\* total equal to the sum of price * quantity over its lines.
C5_StoredTotalIsLineSum ==
    \A i \in 1..Len(carts) :
        (Len(carts[i].items) > 0 /\ PositiveLines(carts[i].items))
        => carts[i].hasTotal /\ carts[i].total = LineTotal(carts[i].items)

\* C6: a successful add_to_cart of a positive quantity on a cart without two
\* lines of the same (productId, size, color) leaves it without two such
\* lines.
C6_AddMergesByKey ==
    [][\A u \in Users, key \in CartKeys :
          (/\ IsAddBy(u)
           /\ NoDuplicateKey(LinesOf(carts, key, u))
           /\ PositiveLines(LinesOf(carts', key, u)))
          => NoDuplicateKey(LinesOf(carts', key, u))]_vars

\* the stock structure a call works on: a product without a stock field is
\* serialized with the default {}
EffectiveStock == IF stockIn = MissingV THEN DictV(<<>>) ELSE stockIn

\* C7: the computed total is never negative, and the serialized inStock
\* flag equals (stockTotal > 0).
C7_TotalNonNegative ==
    stockRes.op # "none"
    => /\ stockRes.total >= 0
       /\ stockRes.op = "serialize" => stockRes.inStock = (stockRes.total > 0)

\* an integer as Python counts it (bool is a subclass of int)
IsIntegerLeaf(x) == x.t \in {"int", "bool"}

\* sum of the integer values among the entries at the given positions
RECURSIVE IntegerSum(_, _)
IntegerSum(entries, positions) ==
    IF positions = {} THEN 0
    ELSE LET k == CHOOSE x \in positions : TRUE IN
         (IF IsIntegerLeaf(entries[k][2]) THEN entries[k][2].v ELSE 0)
             + IntegerSum(entries, positions \ {k})

\* sum of the integer values one level down in the nested mappings
RECURSIVE NestedSum(_, _)
NestedSum(entries, positions) ==
    IF positions = {} THEN 0
    ELSE LET k == CHOOSE x \in positions : TRUE IN
         (IF entries[k][2].t = "dict"
          THEN IntegerSum(entries[k][2].d, 1..Len(entries[k][2].d))
          ELSE 0) + NestedSum(entries, positions \ {k})

TwoLevelSum(stock) ==
    IF stock.t # "dict" THEN 0
    ELSE IntegerSum(stock.d, 1..Len(stock.d)) + NestedSum(stock.d, 1..Len(stock.d))

\* C8: the total is the sum of the integer values at the top level plus the
\* integer values one level down, nothing deeper; {"50ml": 10} gives 10, the
\* nested example gives 18, an empty, missing or null structure gives 0 and
\* inStock false.
C8_TwoLevelSum ==
    stockRes.op # "none"
    => /\ stockRes.total = TwoLevelSum(EffectiveStock)
       /\ stockIn = ExampleFlat => stockRes.total = 10
       /\ stockIn = ExampleNested => stockRes.total = 18
       /\ stockIn \in {DictV(<<>>), MissingV, NoneV}
          => stockRes.total = 0 /\ ~stockRes.inStock

\* C8 witness: the nested example has been totalled to 18.
C8_Witness ==
    stockRes.op = "calculate" /\ stockIn = ExampleNested /\ stockRes.total = 18

\* the structure without the entries whose value is not an integer, at the
\* top level (mappings kept) and one level down
KeepTop(e) == IsIntegerLeaf(e[2]) \/ e[2].t = "dict"

KeepSub(e) == IsIntegerLeaf(e[2])

StripSub(x) == IF x.t = "dict" THEN DictV(SelectSeq(x.d, KeepSub)) ELSE x

StripNonInteger(stock) ==
    IF stock.t # "dict" THEN stock
    ELSE LET kept == SelectSeq(stock.d, KeepTop) IN
         DictV([i \in 1..Len(kept) |-> <<kept[i][1], StripSub(kept[i][2])>>])

\* C9: on every input the computation returns a number without raising, a
\* non-mapping input gives 0, the leaves that are not integers contribute
\* nothing (the total is that of the structure without them), and the input
\* structure is left as it was.
C9_TotalAndTolerant ==
    /\ [](stockRes.op # "none"
          => /\ ~stockRes.raised
             /\ stockRes.total \in Int
             /\ EffectiveStock.t # "dict" => stockRes.total = 0
             /\ stockRes.total = TwoLevelSum(StripNonInteger(EffectiveStock)))
    /\ [][stockIn' = stockIn]_vars

\* C9 witness: a structure with a string leaf and a mapping three levels
\* down has been totalled without failure.
C9_Witness ==
    /\ stockRes.op = "calculate"
    /\ ~stockRes.raised
    /\ stockIn = DictV(<< <<"a", StrV>>,
                          <<"b", DictV(<< <<"S", DeepDict>>, <<"M", IntV(2)>> >>)>> >>)
    /\ stockRes.total = 2

\* C10: an add_to_cart naming a well-formed id that does not resolve to an
\* active product fails with 404 and leaves the carts as they were.
C10_AddRequiresActiveProduct ==
    [][\A u \in Users, p \in RequestIds :
          (/\ resp'.op = "add_to_cart" /\ resp'.user = u /\ nops' = nops + 1
           /\ resp'.productId = p
           /\ IsValidObjectId(p)
           /\ ~(p \in ProductIds /\ products[IF p \in ProductIds THEN p ELSE "p1"].active))
          => resp'.code = 404 /\ carts' = carts]_vars

\* the units available for a stock field: the count itself for the integer
\* stock orders.py:243 reads, the total of calculate_total_stock for a mapping
Availability(stock) ==
    IF stock.t = "int" THEN stock.v
    ELSE calculate_total_stock(IF stock = MissingV THEN DictV(<<>>) ELSE stock).total

\* the step is the add_to_cart request (u, p, q) at either entry point
IsAddRequest(u, p, q) ==
    \/ \E size \in Sizes, color \in Colors : CartAdd(u, p, q, size, color)
    \/ OrdersAdd(u, p, q)

\* C11: an add_to_cart that asks for more units than the product's stock
\* structure holds is refused with "Stock insuffisant" (400) and leaves the
\* carts as they were, at both entry points and for integer and nested stock.
C11_AddRefusesBeyondAvailability ==
    [][\A u \in Users, p \in ProductIds, q \in Qtys :
          (IsAddRequest(u, p, q) /\ q > Availability(products[p].stock))
          => /\ resp'.code = 400
             /\ resp'.detail = "Stock insuffisant"
             /\ carts' = carts]_vars

\* the product is on promotion: it carries a promotional price
\* (products.py 184-192 stores null when it is not)
OnPromotion(product) == product.promoPrice.t = "int"

\* C12: a line appended by a successful add_to_cart of a positive quantity carries the product's
\* promoPrice when the product is on promotion and its price otherwise, and
\* never a null price.
C12_SnapshotPrice ==
    [][\A u \in Users, p \in ProductIds, key \in CartKeys :
          (/\ IsAddBy(u)
           /\ resp'.productId = p
           /\ Len(LinesOf(carts', key, u)) = Len(LinesOf(carts, key, u)) + 1
           /\ PositiveLines(LinesOf(carts', key, u)))
          => LET line == LinesOf(carts', key, u)[Len(LinesOf(carts', key, u))] IN
             /\ line.price.t # "none"
             /\ line.price = IF OnPromotion(products[p])
                             THEN products[p].promoPrice
                             ELSE IntV(products[p].price)]_vars

\* C13: every line of every stored cart has a quantity of at least 1.
C13_StoredQuantitiesPositive ==
    \A i \in 1..Len(carts) : PositiveLines(carts[i].items)

\* the step is an update_cart_item or remove_from_cart request of user u
\* with the given line index
IsUpdateRequest(u, item_index) ==
    \E quantity \in Qtys : OrdersUpdateItem(u, item_index, quantity)

\* C14: update_cart_item and remove_from_cart with an index that addresses
\* no line of the user's cart (negative ones included) answer 404 and leave
\* the carts as they were; remove_from_cart with an index that addresses a
\* line deletes that line and keeps the others in order.
C14_IndexOutsideCartIsNotFound ==
    [][\A u \in Users, item_index \in Indexes :
          LET lines == LinesOf(carts, "user", u)
              addressed == item_index >= 0 /\ item_index < Len(lines)
          IN /\ ((IsUpdateRequest(u, item_index) \/ OrdersRemoveItem(u, item_index))
                  /\ ~addressed)
                => resp'.code = 404 /\ carts' = carts
             /\ (OrdersRemoveItem(u, item_index) /\ addressed)
                => /\ resp'.code = 200
                   /\ LinesOf(carts', "user", u) = RemoveAt(lines, item_index + 1)]_vars

\* the total of a cart record as its readers get it: the stored field of the
\* records of cart.py, the sum computed on read (orders.py 281) otherwise
ReadTotal(doc) == IF doc.hasTotal THEN doc.total ELSE SumLines(doc.items).total

\* the record of user u under the key has no line and a total of 0
EmptiedCart(cs, key, u) ==
    /\ LinesOf(cs, key, u) = <<>>
    /\ FindCart(cs, key, u) # 0 => ReadTotal(cs[FindCart(cs, key, u)]) = 0

\* C15: clear_cart answers 200 whether or not the user has a cart record,
\* leaves the user's record of that handler with no line and total 0, and a
\* second clear would leave the collection exactly as the first one left it.
C15_ClearEmptiesAndIsIdempotent ==
    [][\A u \in Users :
          /\ CartClear(u)
             => /\ resp'.code = 200
                /\ EmptiedCart(carts', "userId", u)
                /\ ClearUserIdCart(carts', u) = carts'
          /\ OrdersClear(u)
             => /\ resp'.code = 200
                /\ EmptiedCart(carts', "user", u)
                /\ SetItems(carts', u, <<>>, TRUE) = carts']_vars

\* C15 witness: a clear_cart of cart.py has answered 200 for a user whose
\* record exists, after an earlier request, and the record is empty with
\* total 0.
C15_Witness ==
    /\ resp.op = "clear_cart"
    /\ resp.file = "cart.py"
    /\ resp.code = 200
    /\ nops >= 2
    /\ FindCart(carts, "userId", resp.user) # 0
    /\ EmptiedCart(carts, "userId", resp.user)

\* the cart records of user u under the key
RecordsOf(cs, key, u) == { i \in 1..Len(cs) : cs[i].key = key /\ cs[i].owner = u }

\* C16: no user ever has two cart records under the key of cart.py, whatever
\* the interleaving of the get_cart and add_to_cart requests in flight.
C16_OneCartPerUser ==
    \A u \in Users : Cardinality(RecordsOf(carts, "userId", u)) <= 1

\* lines create_order can total: an integer price and a quantity of at
\* least 1 on every line, and at least one line
Committable(items) ==
    /\ Len(items) > 0
    /\ PositiveLines(items)
    /\ \A i \in 1..Len(items) : items[i].price.t = "int"

\* the step is a create_order of user u on a cart record it reads and can
\* total
IsCommitOfCart(u) == IsCommitBy(u) /\ Committable(LinesOf(carts, "user", u))

\* C17: every commit of a cart with lines adds an order that carries an
\* order number different from the number of every order already stored, so
\* that two commits in a row leave two orders with distinct numbers.
C17_CommitsCarryDistinctOrderNumbers ==
    [][\A u \in Users :
          IsCommitOfCart(u)
          => /\ Len(orders') = Len(orders) + 1
             /\ orders'[Len(orders')].orderNumber # Absent
             /\ \A i \in 1..Len(orders) :
                   orders[i].orderNumber # orders'[Len(orders')].orderNumber]_vars

\* C18: every commit of a cart with lines persists an order whose status is
\* "pending" and whose payment status is "pending".
C18_CommittedOrderStartsPending ==
    [][\A u \in Users :
          IsCommitOfCart(u)
          => /\ Len(orders') = Len(orders) + 1
             /\ orders'[Len(orders')].status = "pending"
             /\ orders'[Len(orders')].paymentStatus = "pending"]_vars

\* C19: every commit of a cart with lines persists an order with a subtotal
\* equal to the sum of price * quantity over its own lines, a shipping cost,
\* and total = subtotal + shippingCost.
C19_TotalIsSubtotalPlusShipping ==
    [][\A u \in Users :
          IsCommitOfCart(u)
          => /\ Len(orders') = Len(orders) + 1
             /\ LET order == orders'[Len(orders')] IN
                /\ order.subtotal.t = "int"
                /\ order.shippingCost.t = "int"
                /\ order.subtotal.v = LineTotal(order.items)
                /\ order.total = order.subtotal.v + order.shippingCost.v]_vars

\* the fields of an order that no later request may change
Content(order) ==
    [user |-> order.user, items |-> order.items, total |-> order.total,
     orderNumber |-> order.orderNumber, subtotal |-> order.subtotal,
     shippingCost |-> order.shippingCost]

\* C20: no step removes an order or changes the owner, the lines (with
\* their prices) or the totals of an order on record, whether the step is a
\* product update, a stock update, a soft delete or a cart request.
C20_OrderContentIsFrozen ==
    [][/\ Len(orders') >= Len(orders)
       /\ \A i \in 1..Len(orders) : Content(orders'[i]) = Content(orders[i])]_vars

\* C20 witness: an update_product has changed the price of the product of
\* a line of the order on record, and the line still carries the price it
\* was ordered at.
C20_Witness ==
    /\ resp.op = "update_product"
    /\ resp.code = 200
    /\ resp.productId = "p1"
    /\ Len(orders) = 1
    /\ orders[1].items[1].productId = "p1"
    /\ products["p1"].price # orders[1].items[1].price.v
    /\ orders[1] = ArchivedOrder

\* C26: get_order answers with an order only when the requesting user owns
\* it and answers 404 for an order of another user, and every order in the
\* answer of get_user_orders is owned by the requesting user.
C26_OrdersAreReadByTheirOwner ==
    [][\A u \in Users :
          /\ \A order_id \in OrderRequestIds :
                GetOrder(u, order_id)
                => /\ \A i \in 1..Len(resp'.data) :
                         /\ resp'.data[i].userId = u
                         /\ orders[resp'.data[i].id].user = u
                   /\ (/\ OrderPosition(order_id) \in 1..Len(orders)
                       /\ orders[OrderPosition(order_id)].user # u)
                      => resp'.code = 404 /\ resp'.data = <<>>
                   /\ (/\ OrderPosition(order_id) \in 1..Len(orders)
                       /\ orders[OrderPosition(order_id)].user = u)
                      => resp'.code = 200 /\ Len(resp'.data) = 1
          /\ GetUserOrders(u)
             => /\ \A i \in 1..Len(resp'.data) :
                      /\ resp'.data[i].userId = u
                      /\ orders[resp'.data[i].id].user = u
                /\ \A k \in 1..Len(orders) :
                      orders[k].user = u
                      => \E i \in 1..Len(resp'.data) : resp'.data[i].id = k]_vars

\* C26 witness: user u2 has asked for the order of user u1 by its id and
\* got 404 with no order in the answer.
C26_Witness ==
    /\ resp.op = "get_order"
    /\ resp.user = "u2"
    /\ resp.orderId = "o1"
    /\ Len(orders) >= 1
    /\ orders[1].user = "u1"
    /\ resp.code = 404
    /\ resp.data = <<>>

\* C27: update_product answers 400 to an id that is not an ObjectId and 404
\* to the id of no product, as update_product_stock and delete_product do,
\* and changes no product in either case.
C27_UpdateProductErrorKinds ==
    [][\A productId \in RequestIds, data \in UpdatePayloads :
          UpdateProduct(productId, data)
          => /\ ~IsValidObjectId(productId)
                => resp'.code = 400 /\ products' = products
             /\ (IsValidObjectId(productId) /\ ~ProductFound(productId))
                => resp'.code = 404 /\ products' = products]_vars
ListingOps ==
    {"get_products", "get_products_by_category", "get_featured_products",
     "get_promotion_products", "search_products"}

\* the active products of a category and subcategory
ActiveIn(category, subcategory) ==
    { id \in DOMAIN products : /\ products[id].active = TRUE
                                /\ products[id].category = category
                                /\ products[id].subcategory = subcategory }

\* C24: whatever creations, updates, stock updates and deletions came before,
\* the answer of a listing (product list, by-category list, featured list,
\* promotion list, search) holds no product whose active flag is false, and
\* the categories aggregation names only categories that have an active
\* product and counts only active products
C24_InactiveProductsAreNotListed ==
    /\ resp.op \in ListingOps =>
          \A i \in 1..Len(resp.data) :
              /\ resp.data[i].active = TRUE
              /\ products[resp.data[i].id].active = TRUE
    /\ resp.op = "get_categories" =>
          \A i \in 1..Len(resp.data) :
              /\ \E id \in DOMAIN products :
                    /\ products[id].active = TRUE
                    /\ products[id].category = resp.data[i].name
              /\ \A k \in 1..Len(resp.data[i].subcategories) :
                    resp.data[i].subcategories[k].productCount =
                        Cardinality(ActiveIn(resp.data[i].name,
                                             resp.data[i].subcategories[k].name))

\* a by-category listing answered with a product while another product of
\* the same category is inactive
C24_Witness ==
    /\ resp.op = "get_products_by_category"
    /\ \E i \in 1..Len(resp.data), id \in DOMAIN products :
          /\ products[id].active = FALSE
          /\ products[id].category = resp.data[i].category

\* C25: update_product_stock on a stored product leaves exactly the supplied
\* structure as its stock, changes no other field of it and no other
\* product, and answers with the stockTotal and inStock of the supplied
\* structure; on an invalid or unknown id it fails and changes no product
C25_SetStockReplacesWholesale ==
    [][\A productId \in CatalogRequestIds, stock \in StockPayloads :
          UpdateProductStock(productId, stock) =>
             IF IsValidObjectId(productId) /\ productId \in DOMAIN products
             THEN /\ products'[productId].stock = stock
                  /\ [products'[productId] EXCEPT !.stock = products[productId].stock]
                        = products[productId]
                  /\ DOMAIN products' = DOMAIN products
                  /\ \A id \in DOMAIN products \ {productId} :
                        products'[id] = products[id]
                  /\ resp'.code = 200
                  /\ resp'.data[1].stockTotal = calculate_total_stock(stock).total
                  /\ resp'.data[1].inStock = (calculate_total_stock(stock).total > 0)
             ELSE /\ resp'.code \in {400, 404}
                  /\ products' = products]_vars

\* the size stock of p2 replaced by the flat stock: the key "Noir" is gone
\* and the answer carries the total of the new structure
C25_Witness ==
    /\ resp.op = "update_product_stock"
    /\ resp.code = 200
    /\ resp.productId = "p2"
    /\ products["p2"].stock = ExampleFlat
    /\ resp.data[1].stockTotal = 10
    /\ resp.data[1].inStock = TRUE

\* C29: an update_product that sets onPromotion to false leaves promoPrice
\* null whatever promoPrice its payload carries, and at all times every
\* product whose stored onPromotion is false has a null promoPrice
C29_PromotionOffMeansNoPromoPrice ==
    /\ [][\A productId \in CatalogRequestIds, data \in CatalogPayloads :
             ( /\ UpdateProduct(productId, data)
               /\ data.onPromotion = BoolV(FALSE)
               /\ IsValidObjectId(productId)
               /\ productId \in DOMAIN products )
             => products'[productId].promoPrice = NoneV]_vars
    /\ [](\A id \in DOMAIN products :
             products[id].onPromotion = BoolV(FALSE)
                => products[id].promoPrice = NoneV)

\* the orders of user u on record
OrdersOf(u) == { k \in 1..Len(orders) : orders[k].user = u }

AdminRequest(token) ==
    \/ \E user_id \in UserRequestIds, new_role \in Roles :
          UpdateUserRole(token, user_id, new_role)
    \/ \E user_id \in UserRequestIds : DeleteUser(token, user_id)
    \/ \E productId \in {"p1", "bad"} : DeleteProductAs(token, productId)

\* a request for any operation behind authentication
AuthenticatedRequest(token) == AdminRequest(token) \/ GetCartAs(token)

\* C30: rights follow the stored user, not the token.  An admin-only
\* request with the token of an account whose stored role is not admin (a
\* demoted admin included) is answered 403 and changes nothing; a request
\* behind authentication with the token of an account that is no longer
\* stored is rejected and changes nothing
C30_RightsFollowTheStoredRole ==
    [][\A id \in Accounts :
          LET token == create_access_token(id) IN
          /\ (id \in DOMAIN users /\ users[id].role # "admin" /\ AdminRequest(token))
                => /\ resp'.code = 403
                   /\ resp'.user = id
                   /\ UNCHANGED <<users, products, carts, orders>>
          /\ (id \notin DOMAIN users /\ AuthenticatedRequest(token))
                => /\ resp'.code = 404
                   /\ resp'.user = id
                   /\ UNCHANGED <<users, products, carts, orders>>]_vars

\* u1, an admin at the start, has been demoted to user and deleting a
\* product with the token issued before is refused
C30_Witness ==
    /\ resp.op = "delete_product"
    /\ resp.user = "u1"
    /\ resp.code = 403
    /\ "u1" \in DOMAIN users
    /\ users["u1"].role = "user"
    /\ SeedUsers["u1"].role = "admin"

=============================================================================
